---- MODULE Spec2Model ----
(***************************************************************************)
(* Model of chengji.c: a program that prompts for one integer score,       *)
(* classifies it with getnum() into the enum grdle {A, B, C, D, E} and     *)
(* prints the letter of the grade.                                         *)
(*                                                                         *)
(* Three specifications are given.                                         *)
(*   Spec      one run of main(): prompt, scanf, getnum, switch, return.   *)
(*   FairSpec  Spec with weak fairness (main is sequential code, every     *)
(*             enabled step is eventually executed).                       *)
(*   SpecCalls getnum() applied repeatedly to scores drawn from a bounded  *)
(*             set, to state properties that relate several calls.         *)
(***************************************************************************)
EXTENDS Integers, Sequences, FiniteSets

(* ---- bounds of the model ---- *)
\* scores enumerated around the band 60..90: (60 - Margin)..(90 + Margin)
Margin == 3
\* number of getnum calls made by SpecCalls
MaxCalls == 2

(* ---- typedef enum { A, B, C, D, E } grdle;  (enumerators are 0..4) ---- *)
A == 0
B == 1
C == 2
D == 3
E == 4
grdle == {A, B, C, D, E}

(* ---- range of the C type int (32 bit) ---- *)
INT_MAX == 2147483647
INT_MIN == (-2147483647) - 1

\* The int values the model enumerates: every score of the four bands and a
\* margin on both sides, plus zero, negatives, large values and both ends of
\* the int range.
Scores == ((60 - Margin)..(90 + Margin)) \cup {INT_MIN, -1000, -5, 0, 1000, INT_MAX}

\* What scanf("%d", &i) can meet on standard input:
\*   "ok"    an integer literal that fits an int; val is its value
\*   "fail"  no integer (matching failure or end of file): i is not assigned
\*   "range" an integer literal that does not fit an int: the conversion is
\*           undefined, i receives some int value
Inputs == [kind : {"ok"}, val : Scores] \cup [kind : {"fail", "range"}, val : {0}]

\* printf("请输入成绩：") : the prompt text, one item of the output
Prompt == "prompt"

VARIABLES
    pc,        \* position in main: start, prompted, read, classified, printed, done; "calls" in SpecCalls
    stdin,     \* the content of standard input
    i,         \* int i of main (indeterminate until scanf assigns it)
    g,         \* grdle g of main; -1 before its initialisation
    out,       \* standard output: sequence of the items written
    exitCode,  \* exit code of the process; -1 while it is running
    hist       \* history of the calls of getnum: <<[num, ret], ...>>

vars == <<pc, stdin, i, g, out, exitCode, hist>>

(* ---- grdle getnum(int num) ---- *)

\* faulty variants of getnum

\* first threshold exclusive
getnum_gt90(num) ==
    IF num > 90 THEN A
    ELSE IF num >= 80 /\ num < 90 THEN B
    ELSE IF num >= 70 /\ num < 80 THEN C
    ELSE IF num >= 60 /\ num < 70 THEN D
    ELSE E

\* lower bounds of the middle bands exclusive
getnum_gt_lower(num) ==
    IF num >= 90 THEN A
    ELSE IF num > 80 /\ num < 90 THEN B
    ELSE IF num > 70 /\ num < 80 THEN C
    ELSE IF num > 60 /\ num < 70 THEN D
    ELSE E

\* parameter declared unsigned: a negative score compares as a huge value
getnum_unsigned(num) ==
    IF num >= 90 \/ num < 0 THEN A
    ELSE IF num >= 80 /\ num < 90 THEN B
    ELSE IF num >= 70 /\ num < 80 THEN C
    ELSE IF num >= 60 /\ num < 70 THEN D
    ELSE E

\* scores above 100 rejected with a value outside the enum
getnum_reject(num) ==
    IF num > 100 THEN E + 1
    ELSE IF num >= 90 THEN A
    ELSE IF num >= 80 /\ num < 90 THEN B
    ELSE IF num >= 70 /\ num < 80 THEN C
    ELSE IF num >= 60 /\ num < 70 THEN D
    ELSE E

\* upper bound of a middle band off by one
getnum_upper(num) ==
    IF num >= 90 THEN A
    ELSE IF num >= 80 /\ num < 89 THEN B
    ELSE IF num >= 70 /\ num < 79 THEN C
    ELSE IF num >= 60 /\ num < 69 THEN D
    ELSE E

\* labels of two bands exchanged
getnum_swapped(num) ==
    IF num >= 90 THEN A
    ELSE IF num >= 80 /\ num < 90 THEN C
    ELSE IF num >= 70 /\ num < 80 THEN B
    ELSE IF num >= 60 /\ num < 70 THEN D
    ELSE E

getnum(num) ==
    IF num >= 90 THEN A
    ELSE IF num >= 80 /\ num < 90 THEN B
    ELSE IF num >= 70 /\ num < 80 THEN C
    ELSE IF num >= 60 /\ num < 70 THEN D
    ELSE E

\* faulty variant of getnum_call: the label is kept in a zero-initialised
\* static variable and the call returns the value stored by the previous call
getnum_call_static(num) ==
    /\ g' = IF Len(hist) > 0 THEN getnum(hist[Len(hist)].num) ELSE A
    /\ hist' = Append(hist, [num |-> num, ret |-> g'])
    /\ UNCHANGED <<stdin, i, out, exitCode>>

\* One call of getnum with argument num: the caller receives the returned
\* label; the body reads nothing but num and writes no object.
getnum_call(num) ==
    /\ g' = getnum(num)
    /\ hist' = Append(hist, [num |-> num, ret |-> getnum(num)])
    /\ UNCHANGED <<stdin, i, out, exitCode>>

(* ---- int main() ---- *)

\* int i;  -- not initialised: its value is indeterminate
Init ==
    /\ pc = "start"
    /\ stdin \in Inputs
    /\ i \in Scores
    /\ g = -1
    /\ out = <<>>
    /\ exitCode = -1
    /\ hist = <<>>

\* printf("请输入成绩：");
PrintPrompt ==
    /\ pc = "start"
    /\ out' = Append(out, Prompt)
    /\ pc' = "prompted"
    /\ UNCHANGED <<stdin, i, g, exitCode, hist>>

\* faulty variant of Scanf: a failed read goes back to the prompt
Scanf_retry ==
    /\ pc = "prompted"
    /\ \/ /\ stdin.kind = "ok"
          /\ i' = stdin.val
          /\ pc' = "read"
       \/ /\ stdin.kind = "fail"
          /\ i' = i
          /\ pc' = "start"
       \/ /\ stdin.kind = "range"
          /\ i' \in Scores
          /\ pc' = "read"
    /\ UNCHANGED <<stdin, g, out, exitCode, hist>>

\* scanf("%d", &i);  -- the return value is not looked at
Scanf ==
    /\ pc = "prompted"
    /\ \/ /\ stdin.kind = "ok"
          /\ i' = stdin.val
       \/ /\ stdin.kind = "fail"
          /\ i' = i
       \/ /\ stdin.kind = "range"
          /\ i' \in Scores
    /\ pc' = "read"
    /\ UNCHANGED <<stdin, g, out, exitCode, hist>>

\* grdle g = getnum(i);
CallGetnum ==
    /\ pc = "read"
    /\ getnum_call(i)
    /\ pc' = "classified"

\* faulty variant of SwitchPrint: the break of case D is missing
SwitchPrint_fallthrough ==
    /\ pc = "classified"
    /\ \/ /\ g = A
          /\ out' = Append(out, "A")
       \/ /\ g = B
          /\ out' = Append(out, "B")
       \/ /\ g = C
          /\ out' = Append(out, "C")
       \/ /\ g = D
          /\ out' = Append(Append(out, "D"), "E")
       \/ /\ g \notin {A, B, C, D}
          /\ out' = Append(out, "E")
    /\ pc' = "printed"
    /\ UNCHANGED <<stdin, i, g, exitCode, hist>>

\* switch (g) { case A: printf("A"); break; ... default: printf("E"); break; }
SwitchPrint ==
    /\ pc = "classified"
    /\ \/ /\ g = A
          /\ out' = Append(out, "A")
       \/ /\ g = B
          /\ out' = Append(out, "B")
       \/ /\ g = C
          /\ out' = Append(out, "C")
       \/ /\ g = D
          /\ out' = Append(out, "D")
       \/ /\ g \notin {A, B, C, D}
          /\ out' = Append(out, "E")
    /\ pc' = "printed"
    /\ UNCHANGED <<stdin, i, g, exitCode, hist>>

\* faulty variant of Return0: a failed read is reported by the exit code
Return0_checked ==
    /\ pc = "printed"
    /\ exitCode' = IF stdin.kind = "ok" THEN 0 ELSE 1
    /\ pc' = "done"
    /\ UNCHANGED <<stdin, i, g, out, hist>>

\* return 0;
Return0 ==
    /\ pc = "printed"
    /\ exitCode' = 0
    /\ pc' = "done"
    /\ UNCHANGED <<stdin, i, g, out, hist>>

Next ==
    \/ PrintPrompt
    \/ Scanf
    \/ CallGetnum
    \/ SwitchPrint
    \/ Return0

Spec == Init /\ [][Next]_vars

\* main is straight-line sequential code: each step, once enabled, is taken
FairSpec == Spec /\ WF_vars(Next)

(* ---- getnum applied repeatedly ---- *)

InitCalls ==
    /\ pc = "calls"
    /\ stdin = [kind |-> "fail", val |-> 0]
    /\ i = 0
    /\ g = -1
    /\ out = <<>>
    /\ exitCode = -1
    /\ hist = <<>>

Call(s) ==
    /\ pc = "calls"
    /\ Len(hist) < MaxCalls
    /\ getnum_call(s)
    /\ pc' = pc

NextCalls == \E s \in Scores : Call(s)

SpecCalls == InitCalls /\ [][NextCalls]_vars

(***************************************************************************)
(* Properties                                                              *)
(***************************************************************************)

Calls == {hist[k] : k \in DOMAIN hist}

\* the run of main has called getnum and finished
Finished == pc = "done" /\ Len(hist) = 1

\* C1: every score s >= 90, up to the largest int, is classified A.
C1_AtLeast90IsA ==
    \A c \in Calls : c.num >= 90 => c.ret = A

C1_Witness ==
    Finished /\ hist[1].num = INT_MAX /\ hist[1].ret = A

\* C2: a score in a middle band gets the label of the band: B for 80 <= s < 90,
\* C for 70 <= s < 80, D for 60 <= s < 70; lower bounds are inclusive.
C2_MiddleBands ==
    \A c \in Calls :
        /\ (80 <= c.num /\ c.num < 90) => c.ret = B
        /\ (70 <= c.num /\ c.num < 80) => c.ret = C
        /\ (60 <= c.num /\ c.num < 70) => c.ret = D

C2_Witness ==
    Finished /\ hist[1].num = 70 /\ hist[1].ret = C

\* C3: every score s < 60, zero and negative values included, is classified E.
C3_Below60IsE ==
    \A c \in Calls : c.num < 60 => c.ret = E

C3_Witness ==
    Finished /\ hist[1].num = -5 /\ hist[1].ret = E

\* the five conditions of the classification table
Band(n, s) ==
    IF n = 1 THEN s >= 90
    ELSE IF n = 2 THEN 80 <= s /\ s < 90
    ELSE IF n = 3 THEN 70 <= s /\ s < 80
    ELSE IF n = 4 THEN 60 <= s /\ s < 70
    ELSE s < 60

\* C4: getnum is total and the bands partition the integers: for every score
\* exactly one of the five conditions holds and the value returned is one of
\* A, B, C, D, E.
C4_TotalPartition ==
    \A c \in Calls :
        /\ Cardinality({n \in 1..5 : Band(n, c.num)}) = 1
        /\ c.ret \in grdle

C4_Witness ==
    Finished /\ hist[1].num = 1000 /\ hist[1].ret \in grdle

Letter(l) ==
    IF l = A THEN "A"
    ELSE IF l = B THEN "B"
    ELSE IF l = C THEN "C"
    ELSE IF l = D THEN "D"
    ELSE IF l = E THEN "E"
    ELSE "?"

\* C6: the complete output of a run is the prompt followed by exactly one
\* character of A..E, the letter of the label getnum returned for the score
\* read; nothing is printed after it.
C6_Output ==
    /\ pc \in {"start"} => out = <<>>
    /\ pc \in {"prompted", "read", "classified"} => out = <<Prompt>>
    /\ pc \in {"printed", "done"} =>
          /\ Len(hist) = 1
          /\ hist[1].num = i
          /\ stdin.kind = "ok" => hist[1].num = stdin.val
          /\ hist[1].ret \in grdle
          /\ out = <<Prompt, Letter(hist[1].ret)>>

C6_Witness ==
    Finished /\ stdin.kind = "ok" /\ stdin.val = 69 /\ out = <<Prompt, "D">>

\* C7: every run that ends, ends with exit code 0, also when the read failed
\* and the score holds an arbitrary value.
C7_ExitZero ==
    /\ pc = "done" => exitCode = 0
    /\ pc # "done" => exitCode = -1

C7_Witness ==
    Finished /\ stdin.kind = "fail" /\ exitCode = 0

Rank(p) ==
    IF p = "start" THEN 0
    ELSE IF p = "prompted" THEN 1
    ELSE IF p = "read" THEN 2
    ELSE IF p = "classified" THEN 3
    ELSE IF p = "printed" THEN 4
    ELSE 5

\* C8: every run terminates and does its steps in the order prompt, read,
\* classify, print, exit: the prompt is written before the read, getnum is
\* called exactly once and after the read, the grade character is written
\* exactly once and after getnum returned, and no step is repeated.
C8_Order ==
    /\ [](/\ Len(out) = (IF Rank(pc) = 0 THEN 0 ELSE IF Rank(pc) <= 3 THEN 1 ELSE 2)
          /\ Len(hist) = (IF Rank(pc) <= 2 THEN 0 ELSE 1)
          /\ Rank(pc) >= 1 => out[1] = Prompt
          /\ Rank(pc) >= 3 => g = hist[1].ret)
    /\ [][Rank(pc') = Rank(pc) + 1]_vars
    /\ <>(pc = "done")

C8_Witness ==
    Finished /\ stdin.kind = "range" /\ Len(out) = 2 /\ exitCode = 0

\* ordered threshold lookup: lower bounds only, top-down, first match wins
Lookup(num) ==
    IF num >= 90 THEN A
    ELSE IF num >= 80 THEN B
    ELSE IF num >= 70 THEN C
    ELSE IF num >= 60 THEN D
    ELSE E

\* C9: the chain of getnum, whose middle branches test a lower and an upper
\* bound, returns for every score the label of the ordered lookup that tests
\* the lower bounds 90, 80, 70, 60 only.
C9_SameAsLookup ==
    \A c \in Calls : c.ret = Lookup(c.num)

C9_Witness ==
    Finished /\ hist[1].num = 89 /\ hist[1].ret = B /\ Lookup(89) = B

\* number of thresholds t with lo < t <= hi
Crossed(lo, hi) == Cardinality({t \in {60, 70, 80, 90} : lo < t /\ t <= hi})

\* C10: getnum is monotonic: for s1 <= s2 the label of s2 is at least as good
\* as that of s1 (as enum values getnum(s2) <= getnum(s1)), and the label
\* moves by exactly one step for each threshold 60, 70, 80, 90 between them.
C10_Monotonic ==
    \A c1, c2 \in Calls :
        c1.num <= c2.num =>
            /\ c2.ret <= c1.ret
            /\ c1.ret - c2.ret = Crossed(c1.num, c2.num)

C10_Witness ==
    /\ Len(hist) = 2
    /\ hist[1].num = 59 /\ hist[1].ret = E
    /\ hist[2].num = 80 /\ hist[2].ret = B

====
